---- MODULE Spec2Model ----
(***************************************************************************)
(* Layer-state synchronisation of the PostGIS browser                      *)
(* (src/ui/apps/postgis/js/postgis.js, with the rendering surface of       *)
(* src/ui/apps/postgis/js/map.js).                                         *)
(*                                                                         *)
(* One JavaScript event loop: every action below is one macrotask, i.e.    *)
(* the code a handler or an async continuation runs between two awaits     *)
(* that really suspend (a remote call).  An await of an already resolved   *)
(* promise (a cache hit in getLayerSrid) resumes in a microtask, before    *)
(* any other event, and is therefore part of the same action.              *)
(***************************************************************************)
EXTENDS Integers, Sequences, FiniteSets, Bags, TLC

\* ------------------------------------------------------------------ bounds
\* Number of async handlers that may be suspended on a remote call at once.
MaxInFlight == 2
\* Number of browser timeouts that may be pending at once.
MaxTimers == 2
\* Number of user actions in one behaviour of Spec.
MaxEvents == 2
\* Number of checkbox changes in one behaviour of SpecToggle.
MaxToggles == 3

\* --------------------------------------------------------------- constants
\* geomCount: null, "filled later" (postgis.js:93)
Null == -1
\* the SRID used when the lookup yields nothing usable (postgis.js:172)
DefaultSrid == 4326
\* const advId = "advanced-sql" (postgis.js:465)
advId == "advanced-sql"
\* let active = null (postgis.js:128)
NoLayer == "none"
\* moveLayer(layerId, -1) of the Up button (postgis.js:332)
Up == -1
\* moveLayer(layerId, +1) of the Down button (postgis.js:341)
Down == 1

\* ------------------------------------------------------------ input spaces
LayerIds == {"A", "B"}
\* Catalog responses that parse: the sequence of tables with has_geom.
Catalogs == {<< >>, <<"A">>, <<"A", "B">>}
\* Values of one column of the batched count row: missing, "0", "5".
CountCells == {Null, 0, 5}
\* rows[0].srid of the SRID lookup: no row / not a number (0), or an SRID.
RawSrids == {0, 3857}
\* Row sets of a query: each row has a geojson value (TRUE) or not.
RowSets == {<<FALSE>>, <<TRUE, FALSE>>}
\* Extent rows: no row, a row with west = null, a row with numbers.
ExtentRows == {"none", "nullwest", "box"}
\* Viewports the user can pan between, and the one fitBounds moves to.
UserViewports == {"v0", "v1"}
FitViewport == "fit"

VARIABLES
    layers,     \* let layers = []: sequence of [full, geomCount]
    active,     \* let active = null: the id of the active layer
    visible,    \* const visible = new Set()
    loaded,     \* const loaded = new Set()
    order,      \* let order = []
    sridCache,  \* const sridCache = new Map()
    surf,       \* GCMapCore._layers: id -> [shown, fc, z (pane z-index, 0: unset)]
    viewport,   \* the Leaflet map's current bounds
    timers,     \* the handles of the browser's pending timeouts
    t,          \* debounce's handle t (0 is null)
    initPc,     \* where init() is
    emptyMsg,   \* #layersHost shows "No geometry layers found."
    checked,    \* ids whose checkbox in the current list is checked
    tasks,      \* the suspended async handlers: a bag of task records
    nSrid,      \* history: SRID lookups issued per counted layer (up to 2)
    lastDone,   \* history: id -> the collection of the last load to complete
    owed,       \* history: moveend notifications since the last firing (up to 2)
    lastNote,   \* history: the viewport at the last moveend notification
    left,       \* user actions the behaviour may still take
    swallowed   \* a debounced reload failed and the catch of line 495 took it

registry == <<layers, active, visible, loaded, order, sridCache>>
surface == <<surf, viewport>>
sched == <<timers, t, owed, lastNote>>
startup == <<initPc, emptyMsg>>
hist == <<nSrid, lastDone>>
vars == <<registry, surface, sched, startup, checked, tasks, hist, left,
          swallowed>>

\* ----------------------------------------------------------- the tasks
\* kind: the handler; layer: the layer its closure captured; cur: the layer
\* of the remote call it is suspended on; pc: that call; phase: 1 in the
\* first viewport load, 2 in the retry after the extent fit; bbox: the
\* bounds read at the start of the load (218), which its SQL queries;
\* det: the checkbox the closure captured is no longer in the list;
\* old (history): the Clear button was pressed while the handler was
\* suspended; was (history): the layer was in visible when the handler
\* started; stored (history): the SRID lookup of the load the handler is
\* in was answered and stored; nExt, nFit, nRetry (history): extent
\* queries, fits and retries of this handler so far.
Idle == [kind |-> "idle", layer |-> NoLayer, cur |-> NoLayer, pc |-> "idle",
         phase |-> 0, bbox |-> "none", det |-> FALSE, old |-> FALSE,
         was |-> FALSE, stored |-> FALSE, nExt |-> 0, nFit |-> 0, nRetry |-> 0]

Running == BagToSet(tasks)
InFlight == BagCardinality(tasks)
Started(ts, new) == ts (+) SetToBag({new})
Ended(tk) == tasks (-) SetToBag({tk})
Replaced(tk, new) == Started(Ended(tk), new)

Inc(n) == IF n < 2 THEN n + 1 ELSE n

\* ------------------------------------------------------ pure functions
\* rowsToFeatureCollection: rows without geojson are dropped; the
\* collection is represented by its number of features.
RECURSIVE rowsToFeatureCollection(_)
rowsToFeatureCollection(rows) ==
    IF rows = << >> THEN 0
    ELSE (IF Head(rows) THEN 1 ELSE 0) + rowsToFeatureCollection(Tail(rows))

\* Variant: a count of zero is not taken as empty.
emptyGeomNegativeOnly(l) == l.geomCount # Null /\ l.geomCount < 0
\* const emptyGeom = (layer.geomCount != null && layer.geomCount <= 0)
emptyGeom(l) == l.geomCount # Null /\ l.geomCount <= 0

\* (l.geomCount == null ? true : l.geomCount > 0)
hasData(l) == IF l.geomCount = Null THEN TRUE ELSE l.geomCount > 0

LayerOf(id) == CHOOSE l \in {layers[i] : i \in DOMAIN layers} : l.full = id
Cataloged == {layers[i].full : i \in DOMAIN layers}

\* Variant: the first layer of the catalog, whatever its count.
pickFirst(ls) == ls[1]
\* layers.find(hasData) || layers[0]
pickActive(ls) ==
    LET ok == {i \in DOMAIN ls : hasData(ls[i])}
    IN  IF ok # {} THEN ls[CHOOSE i \in ok : \A j \in ok : i <= j]
        ELSE ls[1]

\* l.geomCount = (v == null) ? 0 : Number(v)
hydrated(ls, row) ==
    [i \in DOMAIN ls |->
        [ls[i] EXCEPT !.geomCount = IF row[i] = Null THEN 0 ELSE row[i]]]

\* const safe = Number.isFinite(srid) && srid > 0 ? srid : 4326
safeSrid(raw) == IF raw > 0 THEN raw ELSE DefaultSrid


\* ------------------------------------------------------------- maps
Put(f, k, v) == [x \in DOMAIN f \cup {k} |-> IF x = k THEN v ELSE f[x]]
EmptyMap == << >>

\* ------------------------------------------------- the rendering surface
\* Variant: a layer that already has features keeps them.
setFeaturesKeepingFirst(s, id, fc) ==
    IF id \in DOMAIN s THEN s ELSE Put(s, id, [shown |-> TRUE, fc |-> fc, z |-> 0])
\* GCMapCore.setFeatures: _ensureLayer creates the entry visible; the
\* features are replaced; an existing entry keeps its visibility.
setFeatures(s, id, fc) ==
    Put(s, id, [shown |-> IF id \in DOMAIN s THEN s[id].shown ELSE TRUE,
                fc |-> fc,
                z |-> IF id \in DOMAIN s THEN s[id].z ELSE 0])

\* Variant: the directive shows a layer and never hides one.
setLayerVisibleShowing(s, id, v) ==
    IF id \in DOMAIN s /\ v THEN [s EXCEPT ![id].shown = TRUE] ELSE s
\* GCMapCore.setLayerVisible: nothing when the surface has no such layer.
setLayerVisible(s, id, v) ==
    IF id \in DOMAIN s THEN [s EXCEPT ![id].shown = v] ELSE s

\* GCMapCore.applyOrder: the pane of every layer of the surface that is in
\* ord gets the z-index 400 + i, i its (last) position in ord from 0.
applyOrder(s, ord) ==
    [id \in DOMAIN s |->
        IF \E k \in DOMAIN ord : ord[k] = id
        THEN LET i == CHOOSE k \in DOMAIN ord :
                          ord[k] = id /\ \A m \in DOMAIN ord : ord[m] = id => m <= k
             IN  [s[id] EXCEPT !.z = 400 + (i - 1)]
        ELSE s[id]]

\* ------------------------------------------------------------ debounce
\* Variant: the pending timeout is not cancelled.
clearTimeoutForgotten(ts, h) == ts
\* clearTimeout(t): the pending timeout with handle h, if any, is dropped.
clearTimeout(ts, h) == ts \ {h}

\* setTimeout: a new pending timeout under a fresh handle.
FreshTimer(ts) == CHOOSE n \in 1..(MaxTimers + 1) : n \notin ts

\* The debounced handler is called (a moveend notification), the map's
\* bounds being vp.
debounce(vp) ==
    LET cleared == clearTimeout(timers, t)
    IN  /\ Cardinality(cleared) < MaxTimers
        /\ t' = FreshTimer(cleared)
        /\ timers' = cleared \cup {FreshTimer(cleared)}
        /\ owed' = Inc(owed)
        /\ lastNote' = vp

\* --------------------------------------------------------- the layer list
\* renderLayerList: cb.checked = visible.has(layerId), false when emptyGeom.
renderChecked(ls, vis) ==
    {ls[i].full : i \in {j \in DOMAIN ls : ls[j].full \in vis /\ ~emptyGeom(ls[j])}}

\* host.innerHTML = "": the checkboxes the suspended handlers captured are
\* no longer the ones in the list.
detach(tk) == IF tk.kind = "checkbox" THEN [tk EXCEPT !.det = TRUE] ELSE tk
detached(ts) == BagOfAll(detach, ts)

\* ------------------------------------------------------- getLayerSrid
\* Variant: the cache is never consulted.
sridNeverHit(l, cache) == FALSE
\* if (sridCache.has(layerId)) return sridCache.get(layerId)
sridHit(l, cache) == l \in DOMAIN cache

\* The history of lookups after a call of getLayerSrid(l).
nSridAfter(l, cache) ==
    IF sridHit(l, cache) \/ l \notin DOMAIN nSrid THEN nSrid
    ELSE [nSrid EXCEPT ![l] = Inc(@)]

\* ------------------------------------------------ loadLayerInViewport
\* The task that called loadLayerInViewport(l) with the cache and the map
\* bounds as given: suspended on the SRID lookup, or, on a cache hit,
\* on the viewport query.
loadStarted(base, l, ph, cache, vp) ==
    [base EXCEPT !.cur = l, !.phase = ph, !.bbox = vp, !.stored = FALSE,
                 !.pc = IF sridHit(l, cache) THEN "query" ELSE "srid"]

\* The task that called getLayerExtent4326(l).
extentStarted(base, l, cache) ==
    [base EXCEPT !.cur = l, !.bbox = "none",
                 !.pc = IF sridHit(l, cache) THEN "extent" ELSE "extSrid",
                 !.nExt = IF sridHit(l, cache) THEN Inc(@) ELSE @]

NewTask(kind, l) ==
    [Idle EXCEPT !.kind = kind, !.layer = l, !.was = l \in visible]

\* A handler of the given kind calls loadLayerInViewport(l) for the first
\* time: one more suspended task.
StartLoad(ts, kind, l) ==
    /\ BagCardinality(ts) < MaxInFlight
    /\ tasks' = Started(ts, loadStarted(NewTask(kind, l), l, 1, sridCache, viewport))
    /\ nSrid' = nSridAfter(l, sridCache)

\* ---------------------------------------------------------------- Init
Constructed ==
    /\ layers = << >>
    /\ active = NoLayer
    /\ visible = {}
    /\ loaded = {}
    /\ order = << >>
    /\ sridCache = EmptyMap
    /\ surf = EmptyMap
    /\ viewport = "v0"
    /\ timers = {}
    /\ t = 0
    /\ initPc = "catalog"
    /\ emptyMsg = FALSE
    /\ checked = {}
    /\ tasks = EmptyBag
    /\ lastDone = EmptyMap
    /\ owed = 0
    /\ lastNote = "none"
    /\ swallowed = FALSE

\* Behaviours of at most MaxEvents user actions, lookups not counted.
Init ==
    /\ Constructed
    /\ nSrid = EmptyMap
    /\ left = MaxEvents

\* ------------------------------------------------------------- startup
\* init, line 503: getJson throws (fetch fails, or !resp.ok, lines 44-46);
\* nothing in init catches it, so init ends there.
CatalogFail ==
    /\ initPc = "catalog"
    /\ initPc' = "failed"
    /\ UNCHANGED <<registry, surface, sched, emptyMsg, checked, tasks, hist, left,
                   swallowed>>

\* init, lines 503-510: the catalog arrived; with no geometry table the
\* empty-state message is shown and init returns, otherwise the batched
\* count query is issued.
CatalogOk(cat) ==
    /\ initPc = "catalog"
    /\ layers' = [i \in DOMAIN cat |-> [full |-> cat[i], geomCount |-> Null]]
    /\ IF cat = << >>
       THEN /\ emptyMsg' = TRUE
            /\ initPc' = "empty"
       ELSE /\ initPc' = "hydrate"
            /\ UNCHANGED emptyMsg
    /\ UNCHANGED <<active, visible, loaded, order, sridCache, surface, sched,
                   checked, tasks, hist, left, swallowed>>

\* Variant: without the test of order.length.
ensureOrderAppending(ord, ls) == ord \o [i \in DOMAIN ls |-> ls[i].full]
\* ensureOrderInitialized, lines 140-143
ensureOrderInitialized(ord, ls) ==
    IF Len(ord) > 0 THEN ord ELSE [i \in DOMAIN ls |-> ls[i].full]

\* init, lines 510-527: the count query is over and left the layers as
\* ls; order, active, visible, the list and the handlers are set up and,
\* when the active layer has data, its first load starts.
Hydrated(ls) ==
    LET a == pickActive(ls)
    IN  /\ initPc = "hydrate"
        /\ layers' = ls
        /\ order' = ensureOrderInitialized(order, ls)
        /\ active' = a.full
        /\ visible' = IF hasData(a) THEN visible \cup {a.full} ELSE visible
        /\ checked' = renderChecked(ls, visible')
        /\ initPc' = "bound"
        /\ IF hasData(a)
           THEN StartLoad(tasks, "init", a.full)
           ELSE UNCHANGED <<tasks, nSrid>>
        /\ surf' = applyOrder(surf, order')
        /\ UNCHANGED <<loaded, sridCache, viewport, sched, emptyMsg, lastDone, left,
                       swallowed>>

\* hydrateGeomCounts, lines 115-123: the count query answered with row.
HydrateOk(row) == Hydrated(hydrated(layers, row))

\* Variant: a failed count query makes every layer empty.
HydrateFailAllEmpty ==
    Hydrated([i \in DOMAIN layers |-> [layers[i] EXCEPT !.geomCount = 0]])
\* init, line 510: the count query failed; the catch leaves the counts null.
HydrateFail == Hydrated(layers)

\* ------------------------------------------- continuations of remote calls
\* Whether the catch that ends handler tk tells the user (alert): the
\* checkbox (305), the row click (407), the buttons (421, 484) and run SQL
\* (479) do; the debounced reload (495) and init's fallback (535) do not;
\* init's first load (527) has no catch.
\* Variant: every catch alerts.
alertsAlways(tk) == TRUE
alerts(tk) == tk.kind \in {"checkbox", "select", "selectA", "button", "runsql"}

\* Whether the failure leaves handler tk uncaught: init's first load.
propagates(tk) == tk.kind = "init" /\ tk.phase = 1 /\ tk.pc \in {"srid", "query"}

\* Variant: a failed call also drops the cached SRID of its layer.
FailEvicting(tk) ==
    /\ tk \in Running
    /\ tasks' = Ended(tk)
    /\ visible' = IF tk.kind = "checkbox" THEN visible \ {tk.layer} ELSE visible
    /\ checked' = IF tk.kind = "checkbox" /\ ~tk.det
                  THEN checked \ {tk.layer} ELSE checked
    /\ sridCache' = [x \in DOMAIN sridCache \ {tk.cur} |-> sridCache[x]]
    /\ swallowed' = (swallowed \/ tk.kind = "reload")
    /\ UNCHANGED <<layers, active, loaded, order, surface, sched,
                   startup, hist, left>>
\* The remote call task tk is suspended on fails (postJson throws): the
\* exception reaches the catch of the handler, if it has one.
\*   checkbox (302-307): visible.delete, cb.checked = false, alert
\*   row click (406-408), buttons (421, 484), run SQL (478-480): alert
\*   debounced reload (495): swallowed
\*   init: the first load (527) is outside any try, the fallback (529-535)
\*   swallows
Fail(tk) ==
    /\ tk \in Running
    /\ tasks' = Ended(tk)
    /\ visible' = IF tk.kind = "checkbox" THEN visible \ {tk.layer} ELSE visible
    /\ checked' = IF tk.kind = "checkbox" /\ ~tk.det
                  THEN checked \ {tk.layer} ELSE checked
    /\ swallowed' = (swallowed \/ tk.kind = "reload")
    /\ UNCHANGED <<layers, active, loaded, order, sridCache, surface, sched,
                   startup, hist, left>>

\* getLayerSrid, lines 170-174, called from loadLayerInViewport (219): the
\* lookup answered; the SRID is stored and the viewport query is issued.
SridDone(tk, raw) ==
    /\ tk \in Running
    /\ tk.pc = "srid"
    /\ sridCache' = Put(sridCache, tk.cur, safeSrid(raw))
    /\ tasks' = Replaced(tk, [tk EXCEPT !.pc = "query", !.stored = TRUE])
    /\ UNCHANGED <<layers, active, visible, loaded, order, surface, sched,
                   startup, checked, hist, left, swallowed>>

\* getLayerSrid, lines 170-174, called from getLayerExtent4326 (179): the
\* lookup answered; the SRID is stored and the extent query is issued.
ExtSridDone(tk, raw) ==
    /\ tk \in Running
    /\ tk.pc = "extSrid"
    /\ sridCache' = Put(sridCache, tk.cur, safeSrid(raw))
    /\ tasks' = Replaced(tk, [tk EXCEPT !.pc = "extent", !.nExt = Inc(@)])
    /\ UNCHANGED <<layers, active, visible, loaded, order, surface, sched,
                   startup, checked, hist, left, swallowed>>

\* Variant: the fallback is entered after every empty load.
wantsExtentAfterAnyLoad(tk, fc) ==
    tk.kind \in {"init", "select", "selectA"} /\ fc = 0
\* Whether the handler goes on to the extent fallback after a load that
\* returned fc: the row click (387-388, 398) and init (528) do, after
\* their first load only.
wantsExtent(tk, fc) ==
    tk.kind \in {"init", "select", "selectA"} /\ tk.phase = 1 /\ fc = 0

\* Variant: the order is not applied after the push.
pushedUnordered(s, l, fc, vis, ord) ==
    setLayerVisible(setFeatures(s, l, fc), l, l \in vis)
\* The surface after loadLayerInViewport's lines 231-237 for layer l.
pushed(s, l, fc, vis, ord) ==
    applyOrder(setLayerVisible(setFeatures(s, l, fc), l, l \in vis), ord)

\* loadLayerInViewport, lines 226-246: the viewport query answered with
\* rows; then the caller's continuation up to its next remote call.
QueryDone(tk, rows) ==
    LET l == tk.cur
        fc == rowsToFeatureCollection(rows)
        el == IF tk.kind = "init" THEN active ELSE tk.layer
    IN  /\ tk \in Running
        /\ tk.pc = "query"
        /\ surf' = pushed(surf, l, fc, visible, order)
        /\ loaded' = loaded \cup {l}
        /\ lastDone' = Put(lastDone, l, fc)
        /\ IF wantsExtent(tk, fc)
           THEN /\ tasks' = Replaced(tk, extentStarted(tk, el, sridCache))
                /\ nSrid' = nSridAfter(el, sridCache)
           ELSE /\ tasks' = Ended(tk)
                /\ UNCHANGED nSrid
        /\ UNCHANGED <<layers, active, visible, order, sridCache, viewport, sched,
                       startup, checked, left, swallowed>>

\* Variant: without the test of visible.
loadsActiveIgnoringVisible(a, vis) == a # NoLayer
\* runActiveViewportLoad, lines 249-253: whether it loads.
loadsActive(a, vis) == a # NoLayer /\ a \in vis

\* The layer the retry after the fit loads, or NoLayer when there is none:
\* the row click of a layer not yet loaded retries its own layer (392); of
\* a loaded layer, runActiveViewportLoad (402); init, active (533).
retryLayer(tk) ==
    CASE tk.kind = "select" -> tk.layer
      [] tk.kind = "init" -> active
      [] OTHER -> IF loadsActive(active, visible) THEN active ELSE NoLayer

\* Variant: the retry does not depend on the extent row.
afterExtentRetrying(tk, ext, rl, cache) ==
    IF rl # NoLayer
    THEN loadStarted([tk EXCEPT !.nRetry = Inc(@)], rl, 2, cache, viewport)
    ELSE Idle
\* The task after an extent answer ext, about to retry layer rl; Idle when
\* the handler is over.
afterExtent(tk, ext, rl, cache) ==
    IF ext = "box" /\ rl # NoLayer
    THEN loadStarted([tk EXCEPT !.nFit = Inc(@), !.nRetry = Inc(@)], rl, 2,
                     cache, FitViewport)
    ELSE Idle

\* Lines 389-393, 399-403, 530-534: the extent query answered; with a
\* usable box the map is fitted to it (which ends a move: moveend) and the
\* viewport load is retried.
ExtentDone(tk, ext) ==
    LET rl == retryLayer(tk)
        nxt == afterExtent(tk, ext, rl, sridCache)
    IN  /\ tk \in Running
        /\ tk.pc = "extent"
        /\ IF ext = "box"
           THEN /\ viewport' = FitViewport
                /\ debounce(FitViewport)
           ELSE UNCHANGED <<viewport, sched>>
        /\ IF nxt # Idle
           THEN /\ tasks' = Replaced(tk, nxt)
                /\ nSrid' = nSridAfter(rl, sridCache)
           ELSE /\ tasks' = Ended(tk)
                /\ UNCHANGED nSrid
        /\ UNCHANGED <<registry, surf, startup, checked, lastDone, left,
                       swallowed>>

\* Variant: order.push(advId) without the test.
orderWithPush(ord, id) == Append(ord, id)
\* order after `if (!order.includes(advId)) order.push(advId)`, line 468
orderWith(ord, id) ==
    IF \E k \in DOMAIN ord : ord[k] = id THEN ord ELSE Append(ord, id)

\* Variant: the handler without the test of fc.features.length.
AdhocDoneUnchecked(tk, rows) ==
    LET fc == rowsToFeatureCollection(rows)
    IN  /\ tk \in Running
        /\ tk.pc = "adhoc"
        /\ tasks' = Ended(tk)
        /\ lastDone' = Put(lastDone, advId, fc)
        /\ visible' = visible \cup {advId}
        /\ loaded' = loaded \cup {advId}
        /\ order' = orderWith(order, advId)
        /\ surf' = applyOrder(setLayerVisible(setFeatures(surf, advId, fc),
                                             advId, TRUE), order')
        /\ UNCHANGED <<layers, active, sridCache, viewport, sched, startup,
                       checked, nSrid, left, swallowed>>
\* #btnRunSql handler, lines 456-477: the ad-hoc query answered with rows.
AdhocDone(tk, rows) ==
    LET fc == rowsToFeatureCollection(rows)
    IN  /\ tk \in Running
        /\ tk.pc = "adhoc"
        /\ tasks' = Ended(tk)
        /\ lastDone' = Put(lastDone, advId, fc)
        /\ IF fc = 0
           THEN UNCHANGED <<visible, loaded, order, surf>>
           ELSE /\ visible' = visible \cup {advId}
                /\ loaded' = loaded \cup {advId}
                /\ order' = orderWith(order, advId)
                /\ surf' = applyOrder(setLayerVisible(setFeatures(surf, advId, fc),
                                                     advId, TRUE), order')
        /\ UNCHANGED <<layers, active, sridCache, viewport, sched, startup,
                       checked, nSrid, left, swallowed>>

\* ------------------------------------------------------- user actions
\* The handlers exist once init has rendered the list and run bindUI.
Bound == initPc = "bound"

\* One user action is taken.
UserActs ==
    /\ left > 0
    /\ left' = left - 1
    /\ swallowed' = swallowed

\* Variant: the handler loads the layer whether it is loaded or not.
ToggleOnAlwaysLoading(l) ==
    /\ Bound
    /\ UserActs
    /\ l \in Cataloged
    /\ ~emptyGeom(LayerOf(l))
    /\ l \notin checked
    /\ checked' = checked \cup {l}
    /\ visible' = visible \cup {l}
    /\ StartLoad(tasks, "checkbox", l)
    /\ UNCHANGED <<layers, active, loaded, order, sridCache, surface, sched,
                   startup, lastDone>>
\* Checkbox change handler, lines 295-311, cb.checked: the user ticks the
\* (enabled, unticked) checkbox of l.
ToggleOn(l) ==
    /\ Bound
    /\ UserActs
    /\ l \in Cataloged
    /\ ~emptyGeom(LayerOf(l))
    /\ l \notin checked
    /\ checked' = checked \cup {l}
    /\ visible' = visible \cup {l}
    /\ IF l \notin loaded
       THEN /\ StartLoad(tasks, "checkbox", l)
            /\ UNCHANGED surf
       ELSE /\ surf' = applyOrder(setLayerVisible(surf, l, TRUE), order)
            /\ UNCHANGED <<tasks, nSrid>>
    /\ UNCHANGED <<layers, active, loaded, order, sridCache, viewport, sched,
                   startup, lastDone>>

\* Checkbox change handler, lines 312-315, !cb.checked.
ToggleOff(l) ==
    /\ Bound
    /\ UserActs
    /\ l \in checked
    /\ checked' = checked \ {l}
    /\ visible' = visible \ {l}
    /\ surf' = setLayerVisible(surf, l, FALSE)
    /\ UNCHANGED <<layers, active, loaded, order, sridCache, viewport, sched,
                   startup, tasks, hist>>

\* Row click handler, lines 368-405, up to its first remote call.  The
\* list is rendered (370) before the layer is added to visible (381).
RowClick(l) ==
    /\ Bound
    /\ UserActs
    /\ l \in Cataloged
    /\ active' = l
    /\ checked' = renderChecked(layers, visible)
    /\ IF emptyGeom(LayerOf(l))
       THEN /\ tasks' = detached(tasks)
            /\ UNCHANGED <<visible, surf, nSrid>>
       ELSE /\ visible' = visible \cup {l}
            /\ IF l \notin loaded
               THEN /\ StartLoad(detached(tasks), "select", l)
                    /\ UNCHANGED surf
               ELSE /\ surf' = setLayerVisible(surf, l, TRUE)
                    /\ StartLoad(detached(tasks), "selectA", l)
    /\ UNCHANGED <<layers, loaded, order, sridCache, viewport, sched, startup,
                   lastDone>>

\* moveLayer, lines 146-153: the order after moveLayer(id, dir).
moveLayer(ord, id, dir) ==
    IF \A k \in DOMAIN ord : ord[k] # id THEN ord
    ELSE LET idx == CHOOSE k \in DOMAIN ord :
                        ord[k] = id /\ \A m \in 1..(k - 1) : ord[m] # id
             j == idx + dir
         IN  IF j < 1 \/ j > Len(ord) THEN ord
             ELSE [ord EXCEPT ![idx] = ord[j], ![j] = ord[idx]]

\* Up/Down buttons, lines 330-342: the list is rendered again only when
\* the order changed (155).
MoveLayer(l, dir) ==
    /\ Bound
    /\ UserActs
    /\ l \in Cataloged
    /\ order' = moveLayer(order, l, dir)
    /\ IF order' # order
       THEN /\ surf' = applyOrder(surf, order')
            /\ checked' = renderChecked(layers, visible)
            /\ tasks' = detached(tasks)
       ELSE UNCHANGED <<surf, checked, tasks>>
    /\ UNCHANGED <<layers, active, visible, loaded, sridCache, viewport, sched,
                   startup, hist>>

\* History: the handler was suspended when Clear was pressed.
outdated(tk) == [tk EXCEPT !.old = TRUE]

\* Variant: the handler without sridCache.clear().
ClearKeepingCache ==
    /\ Bound
    /\ UserActs
    /\ surf' = EmptyMap
    /\ loaded' = {}
    /\ visible' = {}
    /\ checked' = renderChecked(layers, visible')
    /\ tasks' = BagOfAll(outdated, detached(tasks))
    /\ lastDone' = EmptyMap
    /\ UNCHANGED <<layers, active, order, sridCache, viewport, sched, startup, nSrid>>
\* #btnClear handler, lines 424-441.
Clear ==
    /\ Bound
    /\ UserActs
    /\ surf' = EmptyMap
    /\ loaded' = {}
    /\ visible' = {}
    /\ sridCache' = EmptyMap
    /\ checked' = renderChecked(layers, visible')
    /\ tasks' = BagOfAll(outdated, detached(tasks))
    /\ lastDone' = EmptyMap
    /\ UNCHANGED <<layers, active, order, viewport, sched, startup, nSrid>>

\* #layerSearch input handler, lines 416-418 (with text matching every row).
FilterInput ==
    /\ Bound
    /\ UserActs
    /\ checked' = renderChecked(layers, visible)
    /\ tasks' = detached(tasks)
    /\ UNCHANGED <<registry, surface, sched, startup, hist>>

\* #btnRunSql handler, lines 450-456, with a non-empty editor.
RunSql ==
    /\ Bound
    /\ UserActs
    /\ InFlight < MaxInFlight
    /\ tasks' = Started(tasks, [NewTask("runsql", advId) EXCEPT !.pc = "adhoc",
                                                                !.cur = advId])
    /\ UNCHANGED <<registry, surface, sched, startup, checked, hist>>

\* #btnReload and #btnFillViewportSql handlers, lines 420-422, 483-485.
ReloadClick ==
    /\ Bound
    /\ UserActs
    /\ loadsActive(active, visible)
    /\ StartLoad(tasks, "button", active)
    /\ UNCHANGED <<registry, surface, sched, startup, checked, lastDone>>

\* The user pans or zooms: the map ends a move with new bounds; the
\* debounced handler is subscribed from bindUI on (493).
MoveEnd(vp) ==
    /\ UserActs
    /\ vp # viewport
    /\ viewport' = vp
    /\ IF Bound THEN debounce(vp) ELSE UNCHANGED sched
    /\ UNCHANGED <<registry, surf, startup, checked, tasks, hist>>

\* A pending timeout's quiet period (350 ms, line 496) is over and its
\* callback runs (26, 494-496): runActiveViewportLoad.
TimerFire(id) ==
    /\ id \in timers
    /\ timers' = timers \ {id}
    /\ owed' = 0
    /\ IF loadsActive(active, visible)
       THEN StartLoad(tasks, "reload", active)
       ELSE UNCHANGED <<tasks, nSrid>>
    /\ UNCHANGED <<registry, surface, t, lastNote, startup, checked, lastDone, left,
                   swallowed>>

\* ------------------------------------------------------------ the system
Next ==
    \/ CatalogFail
    \/ \E cat \in Catalogs : CatalogOk(cat)
    \/ \E row \in [DOMAIN layers -> CountCells] : HydrateOk(row)
    \/ HydrateFail
    \/ \E tk \in Running : Fail(tk)
    \/ \E tk \in Running, raw \in RawSrids : SridDone(tk, raw)
    \/ \E tk \in Running, raw \in RawSrids : ExtSridDone(tk, raw)
    \/ \E tk \in Running, rows \in RowSets : QueryDone(tk, rows)
    \/ \E tk \in Running, ext \in ExtentRows : ExtentDone(tk, ext)
    \/ \E tk \in Running, rows \in RowSets : AdhocDone(tk, rows)
    \/ \E l \in LayerIds : ToggleOn(l)
    \/ \E l \in LayerIds : ToggleOff(l)
    \/ \E l \in LayerIds : RowClick(l)
    \/ \E l \in LayerIds, dir \in {Up, Down} : MoveLayer(l, dir)
    \/ Clear
    \/ FilterInput
    \/ RunSql
    \/ ReloadClick
    \/ \E vp \in UserViewports : MoveEnd(vp)
    \/ \E id \in timers : TimerFire(id)

Spec == Init /\ [][Next]_vars

\* A suspended handler's remote call is answered, or fails.
Answered ==
    \E tk \in Running :
        \/ Fail(tk)
        \/ \E raw \in RawSrids : SridDone(tk, raw) \/ ExtSridDone(tk, raw)
        \/ \E rows \in RowSets : QueryDone(tk, rows) \/ AdhocDone(tk, rows)
        \/ \E ext \in ExtentRows : ExtentDone(tk, ext)

\* A pending timeout fires.
Fired == \E id \in timers : TimerFire(id)

\* Startup, ticks of checkboxes and the Clear button.
NextClear ==
    \/ CatalogFail
    \/ \E cat \in Catalogs : CatalogOk(cat)
    \/ \E row \in [DOMAIN layers -> CountCells] : HydrateOk(row)
    \/ HydrateFail
    \/ \E tk \in Running : Fail(tk)
    \/ \E tk \in Running, raw \in RawSrids : SridDone(tk, raw)
    \/ \E tk \in Running, raw \in RawSrids : ExtSridDone(tk, raw)
    \/ \E tk \in Running, rows \in RowSets : QueryDone(tk, rows)
    \/ \E tk \in Running, ext \in ExtentRows : ExtentDone(tk, ext)
    \/ \E l \in LayerIds : ToggleOn(l)
    \/ Clear
    \/ \E id \in timers : TimerFire(id)

SpecClear == Init /\ [][NextClear]_vars

\* Startup, the Up and Down buttons and ad-hoc queries.
NextOrder ==
    \/ \E cat \in Catalogs : CatalogOk(cat)
    \/ \E row \in [DOMAIN layers -> CountCells] : HydrateOk(row)
    \/ HydrateFail
    \/ \E tk \in Running : Fail(tk)
    \/ \E tk \in Running, raw \in RawSrids : SridDone(tk, raw)
    \/ \E tk \in Running, rows \in RowSets : QueryDone(tk, rows)
    \/ \E tk \in Running, ext \in ExtentRows : ExtentDone(tk, ext)
    \/ \E tk \in Running, rows \in RowSets : AdhocDone(tk, rows)
    \/ \E l \in LayerIds, dir \in {Up, Down} : MoveLayer(l, dir)
    \/ RunSql
    \/ \E id \in timers : TimerFire(id)

SpecOrder == Init /\ [][NextOrder]_vars

\* One layer, its loads started in every way, and the Clear button, with
\* the SRID lookups counted.
InitCounted ==
    /\ Constructed
    /\ nSrid = [l \in LayerIds |-> 0]
    /\ left = MaxEvents

NextCounted ==
    \/ CatalogOk(<<"A">>)
    \/ \E row \in [DOMAIN layers -> CountCells] : HydrateOk(row)
    \/ HydrateFail
    \/ \E tk \in Running : Fail(tk)
    \/ \E tk \in Running, raw \in RawSrids : SridDone(tk, raw)
    \/ \E tk \in Running, raw \in RawSrids : ExtSridDone(tk, raw)
    \/ \E tk \in Running, rows \in RowSets : QueryDone(tk, rows)
    \/ \E tk \in Running, ext \in ExtentRows : ExtentDone(tk, ext)
    \/ \E l \in LayerIds : ToggleOn(l)
    \/ \E l \in LayerIds : ToggleOff(l)
    \/ \E l \in LayerIds : RowClick(l)
    \/ Clear
    \/ ReloadClick
    \/ \E id \in timers : TimerFire(id)

SpecCounted == InitCounted /\ [][NextCounted]_vars

\* Startup, moves of the map, the timeouts, and the checkboxes (the active
\* layer may be hidden when a timeout fires).
NextSched ==
    \/ \E cat \in Catalogs : CatalogOk(cat)
    \/ \E row \in [DOMAIN layers -> CountCells] : HydrateOk(row)
    \/ HydrateFail
    \/ \E tk \in Running : Fail(tk)
    \/ \E tk \in Running, raw \in RawSrids : SridDone(tk, raw)
    \/ \E tk \in Running, rows \in RowSets : QueryDone(tk, rows)
    \/ \E tk \in Running, ext \in ExtentRows : ExtentDone(tk, ext)
    \/ \E l \in LayerIds : ToggleOn(l)
    \/ \E l \in LayerIds : ToggleOff(l)
    \/ \E vp \in UserViewports : MoveEnd(vp)
    \/ \E id \in timers : TimerFire(id)

\* The browser runs the callback of every timeout that stays pending, and
\* every fetch is settled in the end.
SpecSched == Init /\ [][NextSched]_vars /\ WF_vars(Fired) /\ WF_vars(Answered)

\* Startup with two layers, then checkbox changes and the Up and Down
\* buttons only, every remote call answering, the lookups counted.  (With
\* no Clear and no change of the active layer, the extent query of startup
\* always finds the SRID cached.)
InitToggle ==
    /\ Constructed
    /\ nSrid = [l \in LayerIds |-> 0]
    /\ left = MaxToggles

NextToggle ==
    \/ CatalogOk(<<"A", "B">>)
    \/ \E row \in [DOMAIN layers -> CountCells] : HydrateOk(row)
    \/ \E tk \in Running, raw \in RawSrids : SridDone(tk, raw)
    \/ \E tk \in Running, rows \in RowSets : QueryDone(tk, rows)
    \/ \E tk \in Running, ext \in ExtentRows : ExtentDone(tk, ext)
    \/ \E l \in LayerIds : ToggleOn(l)
    \/ \E l \in LayerIds : ToggleOff(l)
    \/ \E l \in LayerIds, dir \in {Up, Down} : MoveLayer(l, dir)

SpecToggle == InitToggle /\ [][NextToggle]_vars

\* ============================================================ properties
\* ------------------------------------------------------------------- C1
\* C1: no layer of the catalog whose geometry count is known (not null)
\* and zero or less is ever in the visible set.
C1_EmptyLayerNeverVisible ==
    \A i \in DOMAIN layers :
        (layers[i].geomCount # Null /\ layers[i].geomCount <= 0)
            => layers[i].full \notin visible

\* A layer known to be empty has been made the active one by a click on
\* its row while another layer, with data, is visible.
C1_Witness ==
    /\ Bound
    /\ \E i, j \in DOMAIN layers :
          /\ layers[i].geomCount = 0
          /\ layers[j].geomCount > 0
          /\ active = layers[i].full
          /\ layers[j].full \in visible

\* ------------------------------------------------------------------- C2
\* C2 (as stated): right after the Clear handler, visible, loaded, order,
\* the active layer and sridCache are all empty or unset.
C2_ClearEmptiesAllFive ==
    [][Clear => /\ visible' = {}
                /\ loaded' = {}
                /\ order' = << >>
                /\ active' = NoLayer
                /\ sridCache' = EmptyMap]_vars

\* C2 (amended): right after the Clear handler, visible, loaded and
\* sridCache are empty and the surface holds no layer; order, the active
\* layer and the catalog are what they were before it.
C2_ClearEmptiesThreeKeepsOrderAndActive ==
    [][Clear => /\ visible' = {}
                /\ loaded' = {}
                /\ sridCache' = EmptyMap
                /\ surf' = EmptyMap
                /\ order' = order
                /\ active' = active
                /\ layers' = layers]_vars

\* Clear was pressed while a load was suspended, with an SRID cached or a
\* layer loaded before it: the three sets are empty, order and active are
\* still set.
C2_Witness ==
    /\ \E tk \in Running : tk.old /\ tk.pc # "srid"
    /\ visible = {} /\ loaded = {} /\ sridCache = EmptyMap
    /\ order # << >>
    /\ active # NoLayer

\* ------------------------------------------------------------------- C3
\* The SRID lookups outstanding for layer l among the tasks ts.
Lookups(l, ts) ==
    BagCardinality([tk \in {x \in BagToSet(ts) :
                               x.cur = l /\ x.pc \in {"srid", "extSrid"}}
                       |-> ts[tk]])

\* C3 (as stated): over any execution at most one SRID lookup is issued
\* per layer.
C3_OneLookupPerLayer == \A l \in DOMAIN nSrid : nSrid[l] <= 1

\* C3 (amended): an SRID lookup for a layer is issued only by a call made
\* while sridCache has no entry for the layer.
C3_LookupOnlyOnCacheMiss ==
    [][\A l \in DOMAIN sridCache :
          /\ Lookups(l, tasks') <= Lookups(l, tasks)
          /\ l \in DOMAIN nSrid => nSrid'[l] = nSrid[l]]_vars

\* A layer has been loaded, one lookup issued for it, and a further load
\* of it is suspended on its viewport query, its SRID taken from the cache.
C3_Witness ==
    \E l \in DOMAIN sridCache :
        /\ l \in DOMAIN nSrid
        /\ nSrid[l] = 1
        /\ l \in loaded
        /\ \E tk \in Running : tk.cur = l /\ tk.pc = "query" /\ ~tk.old

\* ------------------------------------------------------------------- C4
\* C4 (as stated): once sridCache has an entry for a layer, no step makes
\* it absent or different.
C4_WriteOnce ==
    [][\A l \in DOMAIN sridCache :
          l \in DOMAIN sridCache' /\ sridCache'[l] = sridCache[l]]_vars

\* The step is the answer to an SRID lookup for layer l.
LookupDone(l) ==
    \E tk \in Running, raw \in RawSrids :
        tk.cur = l /\ (SridDone(tk, raw) \/ ExtSridDone(tk, raw))

\* C4 (amended): an entry of sridCache is removed only by Clear, which
\* empties the cache, and is changed only by the answer to a further SRID
\* lookup for the same layer, which stores its own result.
C4_ChangedOnlyByClearOrLookup ==
    [][\A l \in DOMAIN sridCache :
          \/ l \in DOMAIN sridCache' /\ sridCache'[l] = sridCache[l]
          \/ Clear /\ sridCache' = EmptyMap
          \/ LookupDone(l) /\ l \in DOMAIN sridCache']_vars

\* Two lookups were issued for a layer; one has stored 3857 and the other
\* is still outstanding.
C4_Witness ==
    \E l \in DOMAIN sridCache :
        /\ sridCache[l] = 3857
        /\ l \in DOMAIN nSrid
        /\ nSrid[l] = 2
        /\ Lookups(l, tasks) = 1

\* ------------------------------------------------------------------- C5
\* At most one timeout is pending, it is the one debounce holds, it is
\* pending exactly when notifications arrived since the last firing, and
\* the map has not moved since the last of them.
C5_OnePending ==
    /\ Cardinality(timers) <= 1
    /\ (timers = {}) <=> (owed = 0)
    /\ timers # {} => (timers = {t} /\ lastNote = viewport)

\* The firing of a timeout ends the burst: no timeout stays pending, and
\* the reload it starts (the active layer being visible) queries the
\* viewport of the last notification.
C5_FireEndsBurst ==
    \A id \in timers :
        TimerFire(id) =>
            /\ timers' = {}
            /\ owed' = 0
            /\ loadsActive(active, visible) =>
                  \E tk \in BagToSet(tasks' (-) tasks) :
                      tk.kind = "reload" /\ tk.cur = active /\ tk.bbox = lastNote

\* C5: notifications that arrive while a timeout is pending (less than
\* the quiet period after the previous one) leave one timeout pending;
\* it fires in the end, its firing is the one reload of the burst and
\* queries the viewport of the last notification.
C5_DebouncedReload ==
    /\ []C5_OnePending
    /\ [][C5_FireEndsBurst]_vars
    /\ (owed > 0) ~> (owed = 0)

\* A burst of two notifications with one timeout pending, while the
\* reload of an earlier burst is outstanding.
C5_Witness ==
    /\ owed = 2
    /\ Cardinality(timers) = 1
    /\ \E tk \in Running : tk.kind = "reload"

\* ------------------------------------------------------------------- C6
\* C6: a handler with the extent fallback (startup, row click) issues at
\* most one extent query, fits the map at most once and retries the
\* viewport load at most once; in the retry it is suspended only on the
\* calls of that load, after which it ends.
C6_FallbackAtMostOnce ==
    \A tk \in Running :
        /\ tk.nExt <= 1
        /\ tk.nFit <= 1
        /\ tk.nRetry <= 1
        /\ tk.phase = 2 => (tk.pc \in {"srid", "query"} /\ tk.nExt = 1)
        /\ tk.pc \in {"extent", "extSrid"} => (tk.phase = 1 /\ tk.nRetry = 0)

\* A row click is in its retry: one extent query, one fit and one retry
\* so far, the retried viewport query outstanding.
C6_Witness ==
    \E tk \in Running :
        /\ tk.kind \in {"select", "selectA"}
        /\ tk.phase = 2
        /\ tk.pc = "query"
        /\ tk.nExt = 1 /\ tk.nFit = 1 /\ tk.nRetry = 1
        /\ viewport = FitViewport

\* ------------------------------------------------------------------- C7
\* C7: when no load of a layer is outstanding any more, the layer's
\* checkbox is checked and the layer is loaded, then the layer is in
\* visible, shown on the surface, and the surface holds the collection of
\* the load of it that completed last.
C7_LastCompletedWins ==
    \A l \in checked :
        (l \in loaded /\ \A tk \in Running : tk.cur # l) =>
            /\ l \in visible
            /\ l \in DOMAIN surf
            /\ surf[l].shown
            /\ surf[l].fc = lastDone[l]

\* B, not the active layer, was checked, unchecked and checked again, the
\* second load starting before the SRID lookup of the first was answered
\* (two lookups); both loads have completed, the last one with an empty
\* collection.
C7_Witness ==
    /\ active = "A"
    /\ left = 0
    /\ "B" \in checked
    /\ nSrid["B"] = 2
    /\ "B" \in loaded
    /\ lastDone["B"] = 0
    /\ \A tk \in Running : tk.cur # "B"

\* ------------------------------------------------------------------- C8
\* The handler tk resumes from a call made by a viewport load or by the
\* SRID lookup of one.
Resumes(tk) ==
    \/ \E raw \in RawSrids : SridDone(tk, raw)
    \/ \E raw \in RawSrids : ExtSridDone(tk, raw)
    \/ \E rows \in RowSets : QueryDone(tk, rows)

\* C8 (as stated): a load that was in flight when Clear ran does not, on
\* resuming, write to loaded, to sridCache or to the surface.
C8_ClearedLoadWritesNothing ==
    [][\A tk \in Running :
          (tk.old /\ Resumes(tk)) => UNCHANGED <<loaded, sridCache, surf>>]_vars

\* ------------------------------------------------------------------- C9
\* The first layer of ls whose count is unknown or positive, 0 if none.
FirstWithData(ls) ==
    LET ok == {i \in DOMAIN ls : ls[i].geomCount = Null \/ ls[i].geomCount > 0}
    IN  IF ok = {} THEN 0 ELSE CHOOSE i \in ok : \A j \in ok : i <= j

\* C9: when startup has the counts, the active layer is the first layer
\* whose count is unknown or positive and visible is exactly that layer;
\* when no layer qualifies the active layer is the first of the catalog,
\* visible is empty and no query is issued.
C9_StartupPolicy ==
    [][(initPc = "hydrate" /\ initPc' = "bound") =>
          LET k == FirstWithData(layers')
          IN  IF k # 0
              THEN /\ active' = layers'[k].full
                   /\ visible' = {layers'[k].full}
                   /\ \E tk \in BagToSet(tasks') :
                         tk.kind = "init" /\ tk.cur = active'
              ELSE /\ active' = layers'[1].full
                   /\ visible' = {}
                   /\ tasks' = EmptyBag]_vars

\* Startup is over with counts A: 0, B: 5, its load of B outstanding.
C9_Witness ==
    /\ Bound
    /\ left = MaxEvents
    /\ Len(layers) = 2
    /\ layers[1] = [full |-> "A", geomCount |-> 0]
    /\ layers[2] = [full |-> "B", geomCount |-> 5]
    /\ active = "B"
    /\ visible = {"B"}
    /\ \E tk \in Running : tk.kind = "init" /\ tk.cur = "B"

\* ------------------------------------------------------------------ C10
\* C10 (as stated): when the catalog request fails or yields no layer,
\* startup still completes, the list is empty, the empty-state message is
\* shown and no query is issued.
C10_CatalogFailureShowsEmptyState ==
    (initPc \in {"failed", "empty"}) =>
        /\ initPc = "empty"
        /\ layers = << >>
        /\ emptyMsg
        /\ tasks = EmptyBag

\* ------------------------------------------------------------------ C11
\* C11 (as stated): when a call of the handler of a checkbox tick or of a
\* row click fails, the user is told and, unless the layer was in visible
\* before the action, the layer is afterwards not in visible and its
\* checkbox is not checked.
C11_FailedActionRolledBack ==
    [][\A tk \in Running :
          (Fail(tk) /\ tk.kind \in {"checkbox", "select", "selectA"} /\ ~tk.was)
              => /\ alerts(tk)
                 /\ tk.layer \notin visible'
                 /\ tk.layer \notin checked']_vars

\* ------------------------------------------------------------------ C12
\* C12: when the count query fails, every count stays null, startup goes
\* on (the failure is swallowed): order is the catalog's ids, the first
\* layer is active and visible and its load starts; no count query is
\* issued again.
C12_HydrationFailureDegrades ==
    /\ [][HydrateFail =>
            /\ layers' = layers
            /\ \A i \in DOMAIN layers' : layers'[i].geomCount = Null
            /\ initPc' = "bound"
            /\ order' = [i \in DOMAIN layers |-> layers[i].full]
            /\ active' = layers[1].full
            /\ visible' = {layers[1].full}
            /\ \E tk \in BagToSet(tasks') :
                  tk.kind = "init" /\ tk.cur = layers[1].full]_vars
    /\ [][initPc' = "hydrate" => initPc \in {"catalog", "hydrate"}]_vars

\* Startup is over after a failed count query: two layers with null
\* counts, the first one active and visible, its load outstanding.
C12_Witness ==
    /\ Bound
    /\ left = MaxEvents
    /\ Len(layers) = 2
    /\ \A i \in DOMAIN layers : layers[i].geomCount = Null
    /\ order = <<"A", "B">>
    /\ active = "A"
    /\ visible = {"A"}
    /\ \E tk \in Running : tk.kind = "init" /\ tk.cur = "A"

\* ------------------------------------------------------------------ C13
\* C13: order never holds an identifier twice.
C13_OrderHasNoDuplicates ==
    \A i, j \in DOMAIN order : order[i] = order[j] => i = j

\* The ad-hoc layer was added to order and a catalog layer then moved
\* past it.
C13_Witness ==
    /\ Len(order) = 3
    /\ \E k \in 1..2 : order[k] = advId

\* ------------------------------------------------------------------ C14
\* order being bottom to top (map.js, applyOrder), the order the claim
\* expects after moveLayer(id, dir): up is towards the top, the end of the
\* sequence; nothing changes at the boundary or when id is not in order.
claimedMove(ord, id, dir) ==
    IF \A k \in DOMAIN ord : ord[k] # id THEN ord
    ELSE LET idx == CHOOSE k \in DOMAIN ord : ord[k] = id
             j == IF dir = Up THEN idx + 1 ELSE idx - 1
         IN  IF j < 1 \/ j > Len(ord) THEN ord
             ELSE [ord EXCEPT ![idx] = ord[j], ![j] = ord[idx]]

\* C14 (as stated): the Up and Down buttons swap the layer with its
\* neighbour in the given direction, leave order unchanged when the layer
\* is already at that end (topmost and moved up) or not in order, and
\* change none of visible, loaded, active and sridCache.
C14_MoveLayerFrame ==
    [][\A l \in LayerIds, dir \in {Up, Down} :
          MoveLayer(l, dir) =>
              /\ order' = claimedMove(order, l, dir)
              /\ UNCHANGED <<visible, loaded, active, sridCache>>]_vars

\* ------------------------------------------------------------------ C15
\* C15: ensureOrderInitialized applied twice gives what it gives applied
\* once; it leaves a non-empty order as it is and makes an empty one the
\* catalog's ids in catalog order.
C15_EnsureOrderIdempotent ==
    LET once == ensureOrderInitialized(order, layers)
    IN  /\ ensureOrderInitialized(once, layers) = once
        /\ order # << >> => once = order
        /\ order = << >> => once = [i \in DOMAIN layers |-> layers[i].full]

\* Startup has initialised order and the user has changed it since: a
\* further call would find it non-empty and different from the catalog.
C15_Witness ==
    /\ Bound
    /\ Len(layers) = 2
    /\ order # << >>
    /\ order # [i \in DOMAIN layers |-> layers[i].full]

\* ------------------------------------------------------------------ C16
\* C16: when the answer to an ad-hoc query has no row with a shape, the
\* handler changes none of visible, loaded, order and active and nothing
\* on the surface.
C16_EmptyAdhocRejected ==
    [][\A tk \in Running, rows \in RowSets :
          (AdhocDone(tk, rows) /\ \A i \in DOMAIN rows : ~rows[i])
              => UNCHANGED <<visible, loaded, order, active, surf>>]_vars

\* An ad-hoc query was answered without a shape: no ad-hoc layer exists.
C16_Witness ==
    /\ advId \in DOMAIN lastDone
    /\ lastDone[advId] = 0
    /\ advId \notin DOMAIN surf
    /\ advId \notin visible \cup loaded
    /\ \A k \in DOMAIN order : order[k] # advId

\* ------------------------------------------------------------------ C17
\* C17 (as stated): whenever no load is in flight, every layer that exists
\* on the surface is shown there exactly when it is in visible.
C17_SurfaceFollowsVisible ==
    tasks = EmptyBag =>
        \A l \in DOMAIN surf : surf[l].shown <=> l \in visible

\* ------------------------------------------------------------------ C18
\* C18 (as stated): whenever no handler is running, the checkbox of each
\* listed layer is checked exactly when the layer is in visible.
C18_ListFollowsVisible ==
    (Bound /\ tasks = EmptyBag) => checked = visible \cap Cataloged

\* ------------------------------------------------------------------ C19
\* C19: the firing of the debounced reload changes no registry state; it
\* starts one load, of the active layer, when there is an active layer
\* and it is in visible, and starts nothing otherwise.
C19_FireLoadsVisibleActiveOnly ==
    [][\A id \in timers :
          TimerFire(id) =>
              /\ UNCHANGED registry
              /\ IF active # NoLayer /\ active \in visible
                 THEN /\ tasks (-) tasks' = EmptyBag
                      /\ BagCardinality(tasks' (-) tasks) = 1
                      /\ \A tk \in BagToSet(tasks' (-) tasks) :
                            tk.kind = "reload" /\ tk.layer = active
                                               /\ tk.cur = active
                 ELSE tasks' = tasks]_vars

\* The map was fitted at startup, the Clear button was pressed while the
\* timeout of that move was pending, and the timeout has fired since:
\* nothing is in flight and nothing was loaded.
C19_Witness ==
    /\ Bound
    /\ t > 0
    /\ timers = {}
    /\ active # NoLayer
    /\ visible = {}
    /\ loaded = {}
    /\ surf = EmptyMap
    /\ tasks = EmptyBag
    /\ left = MaxEvents - 1

\* ------------------------------------------------------------------ C20
\* The failure of a debounced reload's remote call: none of the catches
\* that alert takes it, it does not leave the callback, and visible,
\* loaded, order, active and the pending timeout are as they were.
C20_FailureIsSilent ==
    \A tk \in Running :
        (Fail(tk) /\ tk.kind = "reload") =>
            /\ ~alerts(tk)
            /\ ~propagates(tk)
            /\ UNCHANGED <<visible, loaded, order, active>>
            /\ UNCHANGED sched

\* After such a failure a notification still leaves a timeout pending.
C20_StillSchedules ==
    \A vp \in UserViewports :
        (swallowed /\ MoveEnd(vp)) => (timers' # {} /\ owed' > 0)

\* C20: a failure inside a debounced reload is swallowed, changes no
\* registry state, and the notifications that follow it still schedule a
\* reload that fires.
C20_ReloadFailureSwallowed ==
    /\ [][C20_FailureIsSilent]_vars
    /\ [][C20_StillSchedules]_vars
    /\ (swallowed /\ owed > 0) ~> (owed = 0)

\* A reload has failed, and the timeout of a notification that arrived
\* after it has fired and started the next reload.
C20_Witness ==
    /\ swallowed
    /\ left = 0
    /\ timers = {}
    /\ \E tk \in Running : tk.kind = "reload" /\ tk.bbox = lastNote
                                              /\ viewport = lastNote

\* ------------------------------------------------------------------ C21
\* C21: when the extent lookup of the fallback fails, answers with no row
\* or answers with a row whose west is null, the map is not fitted (its
\* bounds stay, no moveend reaches the scheduler) and the handler ends
\* without another remote call.
C21_NoExtentNoRetry ==
    [][\A tk \in Running :
          (\/ \E ext \in {"none", "nullwest"} : ExtentDone(tk, ext)
           \/ Fail(tk) /\ tk.pc \in {"extSrid", "extent"})
              => /\ viewport' = viewport
                 /\ UNCHANGED sched
                 /\ tasks' = tasks (-) SetToBag({tk})]_vars

\* Startup is over with nothing in flight: the first load of the active
\* layer was empty, so the extent was asked for, and the map was never
\* fitted (no timeout was ever set).
C21_Witness ==
    /\ Bound
    /\ left = MaxEvents
    /\ tasks = EmptyBag
    /\ active \in loaded
    /\ active \in DOMAIN lastDone
    /\ lastDone[active] = 0
    /\ viewport # FitViewport
    /\ t = 0
    /\ timers = {}

\* ------------------------------------------------------------------ C22
\* The z-index applyOrder gives the pane of a layer at position k of order.
zOf(k) == 400 + (k - 1)

\* C22: when the viewport query of a load answers, the surface holds the
\* answer's features under the layer's id, the layer is shown there
\* exactly when it is in visible at that moment, every layer of the
\* surface is stacked by its position in the current order, and the layer
\* is in loaded.
C22_CompletionSequence ==
    [][\A tk \in Running, rows \in RowSets :
          QueryDone(tk, rows) =>
              /\ tk.cur \in DOMAIN surf'
              /\ surf'[tk.cur].fc = Cardinality({i \in DOMAIN rows : rows[i]})
              /\ surf'[tk.cur].shown = (tk.cur \in visible)
              /\ \A k \in DOMAIN order :
                    order[k] \in DOMAIN surf' => surf'[order[k]].z = zOf(k)
              /\ tk.cur \in loaded']_vars

\* The second layer of the stack was loaded by a handler that found it in
\* visible when it started and not when its query answered: it is on the
\* surface, stacked, and hidden.
C22_Witness ==
    /\ Len(order) = 2
    /\ order[2] \in loaded
    /\ order[2] \in DOMAIN surf
    /\ ~surf[order[2]].shown
    /\ surf[order[2]].z = zOf(2)
    /\ order[2] \notin visible
    /\ order[2] \in DOMAIN sridCache
    /\ order[2] # active

\* ------------------------------------------------------------------ C23
\* C23 (as stated): a load whose SRID lookup or viewport query fails has
\* added nothing to sridCache or to loaded and has pushed nothing to the
\* surface, and its handler makes no further remote call.
C23_FailedLoadLeavesNoTrace ==
    [][\A tk \in Running :
          (Fail(tk) /\ tk.pc \in {"srid", "query"})
              => /\ ~tk.stored
                 /\ UNCHANGED <<loaded, sridCache, surf>>
                 /\ tasks' = tasks (-) SetToBag({tk})]_vars

\* C23 (amended): the failure of the SRID lookup or of the viewport query
\* of a load changes none of loaded, sridCache and the surface, and the
\* handler makes no further remote call; the SRID that the load's own
\* lookup stored before the viewport query failed is still cached.
C23_FailureWritesNothing ==
    [][\A tk \in Running :
          (Fail(tk) /\ tk.pc \in {"srid", "query"})
              => /\ loaded' = loaded
                 /\ sridCache' = sridCache
                 /\ surf' = surf
                 /\ tasks' = tasks (-) SetToBag({tk})
                 /\ (tk.stored /\ ~tk.old) => tk.cur \in DOMAIN sridCache']_vars

\* Startup's load got its SRID stored and its viewport query failed:
\* nothing is in flight, the layer is cached and not loaded.
C23_Witness ==
    /\ Bound
    /\ left = MaxEvents
    /\ tasks = EmptyBag
    /\ active \in DOMAIN sridCache
    /\ loaded = {}
    /\ surf = EmptyMap

\* ------------------------------------------------------------------ C24
\* C24: ticking the checkbox of a layer that is in loaded starts no remote
\* call: the layer is added to visible, shown on the surface and the
\* order applied; ticking the checkbox of a layer that is not in loaded
\* starts one load, of that layer.
C24_LoadedLayerNotReloaded ==
    [][\A l \in LayerIds :
          ToggleOn(l) =>
              /\ visible' = visible \cup {l}
              /\ UNCHANGED <<loaded, order, active, sridCache>>
              /\ IF l \in loaded
                 THEN /\ tasks' = tasks
                      /\ \A x \in DOMAIN surf' :
                            surf'[x].shown = (x = l \/ surf[x].shown)
                      /\ \A k \in DOMAIN order :
                            order[k] \in DOMAIN surf' => surf'[order[k]].z = zOf(k)
                 ELSE /\ surf' = surf
                      /\ tasks (-) tasks' = EmptyBag
                      /\ BagCardinality(tasks' (-) tasks) = 1
                      /\ \A tk \in BagToSet(tasks' (-) tasks) :
                            tk.kind = "checkbox" /\ tk.cur = l]_vars

\* While startup's load is still waiting for its SRID, the second layer
\* was loaded by a tick of its checkbox, unticked and ticked again: it is
\* shown, and no load of it is in flight.
C24_Witness ==
    /\ left = 0
    /\ Len(layers) = 2
    /\ layers[2].full \in loaded \cap visible \cap checked
    /\ layers[2].full \in DOMAIN surf
    /\ surf[layers[2].full].shown
    /\ nSrid[layers[2].full] = 1
    /\ layers[1].full \notin loaded
    /\ InFlight = 1
    /\ \A tk \in Running : tk.kind = "init" /\ tk.pc = "srid"

\* ------------------------------------------------------------------ C25
\* Every layer of the surface has a place in order.
C25_DrawnLayersAreOrdered ==
    \A id \in DOMAIN surf : \E k \in DOMAIN order : order[k] = id

\* An ad-hoc answer with a shape: the synthetic id is in visible and in
\* loaded; order is as it was when it held the id and is order with the
\* id appended when it did not; the ad-hoc layer is shown, stacked at its
\* place in order.
C25_AdhocAppendsOnce ==
    \A tk \in Running, rows \in RowSets :
        (AdhocDone(tk, rows) /\ \E i \in DOMAIN rows : rows[i]) =>
            /\ advId \in visible' \cap loaded'
            /\ order' = IF \E k \in DOMAIN order : order[k] = advId
                        THEN order
                        ELSE order \o <<advId>>
            /\ advId \in DOMAIN surf'
            /\ surf'[advId].shown
            /\ \E k \in DOMAIN order' :
                  order'[k] = advId /\ surf'[advId].z = zOf(k)

\* C25: a successful ad-hoc query with a feature adds the synthetic id to
\* visible and loaded and appends it to order exactly when it was absent,
\* the other entries keeping their places; a repeated query leaves order
\* as it is; no layer is on the surface without being in order.
C25_AddSyntheticLayer ==
    /\ []C25_DrawnLayersAreOrdered
    /\ [][C25_AdhocAppendsOnce]_vars

\* Two ad-hoc queries answered with a shape: the synthetic layer is last
\* in order, once, after the catalog's layers, and shown on top.
C25_Witness ==
    /\ left = 0
    /\ tasks = EmptyBag
    /\ Len(layers) = 2
    /\ order = <<layers[1].full, layers[2].full, advId>>
    /\ advId \in visible \cap loaded
    /\ advId \in DOMAIN surf
    /\ surf[advId].shown
    /\ surf[advId].fc = 1
    /\ surf[advId].z = zOf(3)

\* ------------------------------------------------------------------ C26
\* C26 (as stated): every remote call of a row click handler, the retry
\* after the extent fit included, is for the layer of the clicked row.
C26_SelectLoadsItsOwnLayer ==
    \A tk \in Running :
        tk.kind \in {"select", "selectA"} => tk.cur = tk.layer

\* ------------------------------------------------------------------ C27
\* A load that completes for a layer that is not in visible leaves the
\* layer hidden on the surface.
C27_HiddenAtCompletion ==
    \A tk \in Running, rows \in RowSets :
        (QueryDone(tk, rows) /\ tk.cur \notin visible) =>
            (tk.cur \in DOMAIN surf' /\ ~surf'[tk.cur].shown)

\* A layer that is hidden on the surface and not in visible is hidden
\* after every step that does not add it to visible.
C27_StaysHidden ==
    \A l \in DOMAIN surf :
        (~surf[l].shown /\ l \notin visible /\ l \notin visible' /\ l \in DOMAIN surf')
            => ~surf'[l].shown

\* C27: a layer taken out of visible while its load was in flight (the
\* surface not having the layer yet) is hidden when the load completes and
\* stays hidden until it is in visible again.
C27_UncheckedInFlightEndsHidden ==
    /\ [][C27_HiddenAtCompletion]_vars
    /\ [][C27_StaysHidden]_vars

\* The checkbox of a layer was unticked while its load waits for the
\* viewport query: the layer is not in visible and the surface does not
\* have it yet.
C27_Witness ==
    \E tk \in Running :
        /\ tk.pc = "query"
        /\ tk.was
        /\ ~tk.old
        /\ tk.cur \notin visible
        /\ tk.cur \notin checked
        /\ tk.cur \notin DOMAIN surf
        /\ tk.cur \notin loaded

====
